---- MODULE Spec2Model ----
(***************************************************************************)
(* VGA scanout driver (src/vga.c): VGA_initDisplay, the self re-arming     *)
(* pair of DMA channels that streams vga_data_array to the rgb PIO state   *)
(* machine, and the bulk operations dma_memset / dma_memcpy /              *)
(* VGA_fillScreen / VGA_drawFrame that share a third DMA channel.          *)
(*                                                                         *)
(* The DMA controller and the PIO block are modelled by their register     *)
(* level behaviour: a channel is a record of its registers, a transfer of  *)
(* one unit is one step, the completion of a channel triggers its chain_to *)
(* target in the same step.                                                *)
(***************************************************************************)
EXTENDS Integers, Sequences, FiniteSets, TLC

(* ------------------------------ bounds -------------------------------- *)
\* Length of the pixel array in the model (76800 in the source).
FrameLen == 3
\* Number of DMA channels of the controller in the model (12 on the chip).
NumChannels == 6
\* Depth of a PIO TX FIFO in the model (4 on the chip).
FifoDepth == 2
\* Number of bulk calls (dma_memset, dma_memcpy, fillScreen, drawFrame).
MaxCalls == 2
\* Number of calls of VGA_initDisplay.
MaxInits == 2

(* ------------------------- program constants -------------------------- *)
TXCOUNT == FrameLen
PIO_INSTRUCTION_COUNT == 32
H_ACTIVE == 339
V_SEED == 239
RGB_ACTIVE == 319
RED == 4
WHITE == 7

hsync_sm == 0
vsync_sm == 1
pclk_sm == 2
rgb_sm == 3

Cores == {0, 1}
Channels == 0 .. NumChannels - 1
StateMachines == 0 .. 3
Programs == {"thd_hsync", "thd_vsync", "thd_rgb"}

(* ------------------------------ memory -------------------------------- *)
\* An address is <<region, offset>>.  "fb" is vga_data_array, "buf" is a
\* buffer of the application, "val" is the by-value parameter val of
\* dma_memset on a core's stack, "ap" is the cell address_pointer, "txf"
\* is a PIO TX FIFO register and "rd" is a channel's read_addr register.
FbAddr(i) == <<"fb", i>>
BufAddr(i) == <<"buf", i>>
ValAddr(t) == <<"val", t>>
ApAddr == <<"ap", 0>>
TxfAddr(sm) == <<"txf", sm>>
RdAddr(c) == <<"rd", c>>

MemAddrs ==
    {FbAddr(i) : i \in 0 .. TXCOUNT - 1}
        \cup {BufAddr(i) : i \in 0 .. TXCOUNT - 1}
        \cup {ValAddr(t) : t \in Cores}

\* Address arithmetic of an incrementing channel: one unit further in the
\* same region.
NextAddr(a) == <<a[1], a[2] + 1>>

(* ------------------------- integer arithmetic ------------------------- *)
RECURSIVE BitOr(_, _)
BitOr(a, b) ==
    IF a = 0 THEN b
    ELSE IF b = 0 THEN a
    ELSE (IF (a % 2 = 1) \/ (b % 2 = 1) THEN 1 ELSE 0)
             + 2 * BitOr(a \div 2, b \div 2)

ToUint8_NoNarrowing(x) == x

\* Conversion of an int argument to a uint8_t parameter.
ToUint8(x) == x % 256

\* The value VGA_fillScreen passes to dma_memset: (color) | (color << 3),
\* narrowed to uint8_t by the call.
PackColor(color) == ToUint8(BitOr(color, color * 8))

VARIABLES
    pc,               \* per core: position in the public call it executes
    loc,              \* locals rgb_chan_0, rgb_chan_1 of VGA_initDisplay
    progLen,          \* length of each PIO program (from the .pio.h files)
    instrUsed,        \* instructions of the PIO instruction memory in use
    smInit,           \* state machines configured by a program_init call
    smEnabled,        \* state machines running
    txLevel,          \* entries in each state machine's TX FIFO
    seeds,            \* values put into each TX FIFO by pio_sm_put_blocking
    claimed,          \* DMA channels claimed
    memcpy_dma_chan,  \* the global of that name
    address_pointer,  \* the global of that name
    ch,               \* registers of each DMA channel
    mem,              \* contents of memory
    call,             \* per core: the bulk call in progress
    hist,             \* per core: the bulk calls that returned
    ncalls,           \* bulk calls made
    ninits,           \* calls of VGA_initDisplay made
    chains,           \* scanout pairs <<A, B>> armed by VGA_initDisplay
    log,              \* per channel: source addresses moved since trigger
    trig,             \* per channel: what triggered it last
    raced,            \* a channel was configured while it was busy
    emitted           \* the last unit written to a TX FIFO: <<source, value>>

vars ==
    <<pc, loc, progLen, instrUsed, smInit, smEnabled, txLevel, seeds, claimed,
      memcpy_dma_chan, address_pointer, ch, mem, call, hist, ncalls, ninits,
      chains, log, trig, raced, emitted>>

pioVars == <<instrUsed, smInit, smEnabled, txLevel, seeds>>
dmaVars == <<claimed, ch, log, trig, raced, emitted>>
callVars == <<call, hist, ncalls>>

(* --------------------------- DMA controller --------------------------- *)
DREQ_FORCE == <<"force", 0>>
DREQ_PIO1_TX2 == <<"pio_tx", 2>>

\* dma_channel_get_default_config: enabled, 32 bit units, read increment,
\* no write increment, unpaced, chained to itself (chaining disabled).
dma_channel_get_default_config(c) ==
    [en |-> TRUE, size |-> 4, incr_read |-> TRUE, incr_write |-> FALSE,
     dreq |-> DREQ_FORCE, chain_to |-> c]

\* A channel after reset: idle, registers zero.
ResetChannel(c) ==
    [en |-> FALSE, size |-> 1, incr_read |-> FALSE, incr_write |-> FALSE,
     dreq |-> DREQ_FORCE, chain_to |-> c,
     read |-> <<"null", 0>>, write |-> <<"null", 0>>,
     reload |-> 0, count |-> 0, busy |-> FALSE]

\* A trigger starts an enabled idle channel with its count reloaded; a
\* trigger of a busy channel has no effect.
Triggers(chs, c) == chs[c].en /\ ~chs[c].busy /\ chs[c].reload > 0

Trigger(chs, c) ==
    IF Triggers(chs, c)
    THEN [chs EXCEPT ![c].busy = TRUE, ![c].count = chs[c].reload]
    ELSE chs

\* dma_channel_configure(channel, config, write_addr, read_addr, count,
\* trigger): the address registers and the control register are written
\* as they are, the count becomes the reload value.
dma_channel_configure(chs, c, cfg, write_addr, read_addr, count, trigger) ==
    LET written ==
            [chs EXCEPT ![c] =
                [en |-> cfg.en, size |-> cfg.size,
                 incr_read |-> cfg.incr_read, incr_write |-> cfg.incr_write,
                 dreq |-> cfg.dreq, chain_to |-> cfg.chain_to,
                 read |-> read_addr, write |-> write_addr,
                 reload |-> count, count |-> chs[c].count,
                 busy |-> chs[c].busy]]
    IN  IF trigger THEN Trigger(written, c) ELSE written

\* The data request a channel is paced by: a TX FIFO requests data while it
\* has room.
DreqAsserted(c) ==
    \/ ch[c].dreq = DREQ_FORCE
    \/ /\ ch[c].dreq[1] = "pio_tx"
       /\ txLevel[ch[c].dreq[2]] < FifoDepth

LoadUnit_Stale(a) == IF a = ApAddr THEN address_pointer ELSE 0

LoadUnit_NullPointer(a) ==
    IF a = ApAddr THEN <<"null", 0>>
    ELSE IF a \in MemAddrs THEN mem[a]
    ELSE 0

\* The unit a channel reads at its read address.
LoadUnit(a) ==
    IF a = ApAddr THEN address_pointer
    ELSE IF a \in MemAddrs THEN mem[a]
    ELSE 0


\* The unit written at a channel's write address: a memory cell, a TX FIFO
\* (an entry more, or the unit is lost when the FIFO is full) or another
\* channel's read_addr register.
StoreMem(m, a, v) == IF a \in MemAddrs THEN [m EXCEPT ![a] = v] ELSE m

StoreFifo(lv, a) ==
    IF a[1] = "txf" /\ lv[a[2]] < FifoDepth
    THEN [lv EXCEPT ![a[2]] = @ + 1]
    ELSE lv

StoreReg_Ignored(chs, a, v) == chs

StoreReg(chs, a, v) ==
    IF a[1] = "rd" THEN [chs EXCEPT ![a[2]].read = v] ELSE chs

\* The cell address_pointer is memory like any other: a unit written at
\* its address replaces the pointer.
StorePointer(p, a, v) == IF a = ApAddr THEN v ELSE p

\* The unit that arrives at a TX FIFO register, with the address it was
\* read from.
StoreEmitted(e, a, src, v) == IF a[1] = "txf" THEN <<src, v>> ELSE e

\* The registers of channel c after it moved one unit.
Advance(chs, c) ==
    [chs EXCEPT
        ![c].read = IF chs[c].incr_read THEN NextAddr(@) ELSE @,
        ![c].write = IF chs[c].incr_write THEN NextAddr(@) ELSE @,
        ![c].count = @ - 1,
        ![c].busy = (chs[c].count - 1 > 0)]

\* Whether the completion of c triggers another channel.
Chains(chs, c) ==
    /\ ~chs[c].busy
    /\ chs[c].chain_to /= c
    /\ Triggers(chs, chs[c].chain_to)

\* One transfer of channel c: read a unit, write it, advance; on the last
\* unit the channel goes idle and triggers its chain_to target.
CanTransfer(c) == ch[c].busy /\ ch[c].count > 0 /\ DreqAsserted(c)

DmaTransfer(c) ==
    /\ CanTransfer(c)
    /\ LET v == LoadUnit(ch[c].read)
           w == ch[c].write
           stored == StoreReg(ch, w, v)
           moved == Advance(stored, c)
           chained == Chains(moved, c)
           t == moved[c].chain_to
       IN  /\ mem' = StoreMem(mem, w, v)
           /\ address_pointer' = StorePointer(address_pointer, w, v)
           /\ txLevel' = StoreFifo(txLevel, w)
           /\ emitted' = StoreEmitted(emitted, w, ch[c].read, v)
           /\ ch' = IF chained THEN Trigger(moved, t) ELSE moved
           /\ log' = IF chained
                     THEN [log EXCEPT ![c] = Append(@, ch[c].read),
                                      ![t] = <<>>]
                     ELSE [log EXCEPT ![c] = Append(@, ch[c].read)]
           /\ trig' = IF chained THEN [trig EXCEPT ![t] = <<"chain", c>>]
                      ELSE trig
    /\ UNCHANGED <<pc, loc, progLen, instrUsed, smInit, smEnabled, seeds,
                   claimed, memcpy_dma_chan, call, hist, ncalls, ninits,
                   chains, raced>>

(* ------------------------------ PIO block ----------------------------- *)
\* The rgb state machine takes one entry from its TX FIFO.
SmPull ==
    /\ rgb_sm \in smEnabled
    /\ txLevel[rgb_sm] > 0
    /\ txLevel' = [txLevel EXCEPT ![rgb_sm] = @ - 1]
    /\ UNCHANGED <<pc, loc, progLen, instrUsed, smInit, smEnabled, seeds,
                   memcpy_dma_chan, address_pointer, mem, chains, ninits>>
    /\ UNCHANGED <<dmaVars, callVars>>

(* --------------------------- VGA_initDisplay -------------------------- *)
NoChan == -1

pio_add_program_NoPanic(prog, next) ==
    /\ instrUsed' =
           IF instrUsed + progLen[prog] <= PIO_INSTRUCTION_COUNT
           THEN instrUsed + progLen[prog]
           ELSE instrUsed
    /\ pc' = [pc EXCEPT ![0] = next]

\* pio_add_program: the program is placed in free instruction memory, or
\* the call panics when there is not enough of it.
pio_add_program(prog, next) ==
    IF instrUsed + progLen[prog] <= PIO_INSTRUCTION_COUNT
    THEN /\ instrUsed' = instrUsed + progLen[prog]
         /\ pc' = [pc EXCEPT ![0] = next]
    ELSE /\ instrUsed' = instrUsed
         /\ pc' = [pc EXCEPT ![0] = "panic"]

AddHsync(from) ==
    /\ pc[0] \in from
    /\ ninits < MaxInits
    /\ ninits' = ninits + 1
    /\ loc' = [c0 |-> NoChan, c1 |-> NoChan]
    /\ pio_add_program("thd_hsync", "add_vsync")
    /\ UNCHANGED <<progLen, smInit, smEnabled, txLevel, seeds,
                   memcpy_dma_chan, address_pointer, mem, chains>>
    /\ UNCHANGED <<dmaVars, callVars>>

AddVsync ==
    /\ pc[0] = "add_vsync"
    /\ pio_add_program("thd_vsync", "add_rgb")
    /\ UNCHANGED <<loc, progLen, smInit, smEnabled, txLevel, seeds,
                   memcpy_dma_chan, address_pointer, mem, chains, ninits>>
    /\ UNCHANGED <<dmaVars, callVars>>

AddRgb ==
    /\ pc[0] = "add_rgb"
    /\ pio_add_program("thd_rgb", "program_init")
    /\ UNCHANGED <<loc, progLen, smInit, smEnabled, txLevel, seeds,
                   memcpy_dma_chan, address_pointer, mem, chains, ninits>>
    /\ UNCHANGED <<dmaVars, callVars>>

\* hsync_program_init, vsync_program_init, rgb_program_init: each
\* configures its state machine, leaving it stopped with empty FIFOs.
ProgramInit ==
    /\ pc[0] = "program_init"
    /\ LET sms == {hsync_sm, vsync_sm, rgb_sm}
       IN  /\ smInit' = smInit \cup sms
           /\ smEnabled' = smEnabled \ sms
           /\ txLevel' = [s \in StateMachines |->
                             IF s \in sms THEN 0 ELSE txLevel[s]]
           /\ seeds' = [s \in StateMachines |->
                           IF s \in sms THEN <<>> ELSE seeds[s]]
    /\ pc' = [pc EXCEPT ![0] = "claim_0"]
    /\ UNCHANGED <<loc, progLen, instrUsed, memcpy_dma_chan, address_pointer,
                   mem, chains, ninits>>
    /\ UNCHANGED <<dmaVars, callVars>>

\* dma_claim_unused_channel(true): the lowest unclaimed channel, or a
\* panic when every channel is claimed.
Unused == Channels \ claimed

LowestUnused == CHOOSE c \in Unused : \A d \in Unused : c <= d

dma_claim_unused_channel(next) ==
    IF Unused /= {}
    THEN /\ claimed' = claimed \cup {LowestUnused}
         /\ pc' = [pc EXCEPT ![0] = next]
    ELSE /\ claimed' = claimed
         /\ pc' = [pc EXCEPT ![0] = "panic"]

Claim0 ==
    /\ pc[0] = "claim_0"
    /\ dma_claim_unused_channel("claim_1")
    /\ loc' = IF Unused /= {} THEN [loc EXCEPT !.c0 = LowestUnused] ELSE loc
    /\ UNCHANGED <<progLen, memcpy_dma_chan, address_pointer, mem, chains,
                   ninits, ch, log, trig, raced, emitted>>
    /\ UNCHANGED <<pioVars, callVars>>

Claim1 ==
    /\ pc[0] = "claim_1"
    /\ dma_claim_unused_channel("claim_memcpy")
    /\ loc' = IF Unused /= {} THEN [loc EXCEPT !.c1 = LowestUnused] ELSE loc
    /\ UNCHANGED <<progLen, memcpy_dma_chan, address_pointer, mem, chains,
                   ninits, ch, log, trig, raced, emitted>>
    /\ UNCHANGED <<pioVars, callVars>>

ClaimMemcpy_Unassigned ==
    /\ pc[0] = "claim_memcpy"
    /\ dma_claim_unused_channel("configure_0")
    /\ UNCHANGED <<loc, progLen, memcpy_dma_chan, address_pointer, mem,
                   chains, ninits, ch, log, trig, raced,
                   emitted>>
    /\ UNCHANGED <<pioVars, callVars>>

ClaimMemcpy ==
    /\ pc[0] = "claim_memcpy"
    /\ dma_claim_unused_channel("configure_0")
    /\ memcpy_dma_chan' =
           IF Unused /= {} THEN LowestUnused ELSE memcpy_dma_chan
    /\ UNCHANGED <<loc, progLen, address_pointer, mem, chains, ninits, ch,
                   log, trig, raced, emitted>>
    /\ UNCHANGED <<pioVars, callVars>>


ConfigA_NoIncrement ==
    [dma_channel_get_default_config(loc.c0) EXCEPT
        !.size = 1, !.incr_read = FALSE, !.incr_write = FALSE,
        !.dreq = DREQ_PIO1_TX2, !.chain_to = loc.c1]

\* Channel Zero (sends color data to the PIO machine): 8 bit units, read
\* incrementing, paced by DREQ_PIO1_TX2 (pio is pio1), chained to channel
\* one, not started.
ConfigA ==
    [dma_channel_get_default_config(loc.c0) EXCEPT
        !.size = 1, !.incr_read = TRUE, !.incr_write = FALSE,
        !.dreq = DREQ_PIO1_TX2, !.chain_to = loc.c1]

ConfigureA ==
    /\ pc[0] = "configure_0"
    /\ ch' = dma_channel_configure(ch, loc.c0, ConfigA, TxfAddr(rgb_sm),
                                   FbAddr(0), TXCOUNT, FALSE)
    /\ raced' = (raced \/ ch[loc.c0].busy)
    /\ pc' = [pc EXCEPT ![0] = "configure_1"]
    /\ UNCHANGED <<loc, progLen, memcpy_dma_chan, address_pointer, mem,
                   chains, ninits, claimed, log, trig, emitted>>
    /\ UNCHANGED <<pioVars, callVars>>

ConfigB_NoChain ==
    [dma_channel_get_default_config(loc.c1) EXCEPT
        !.size = 4, !.incr_read = FALSE, !.incr_write = FALSE]

\* Channel One (reconfigures the first channel): one 32 bit unit from
\* address_pointer to channel zero's read address, chained to channel
\* zero, not started.
ConfigB ==
    [dma_channel_get_default_config(loc.c1) EXCEPT
        !.size = 4, !.incr_read = FALSE, !.incr_write = FALSE,
        !.chain_to = loc.c0]

ConfigureB ==
    /\ pc[0] = "configure_1"
    /\ ch' = dma_channel_configure(ch, loc.c1, ConfigB, RdAddr(loc.c0),
                                   ApAddr, 1, FALSE)
    /\ raced' = (raced \/ ch[loc.c1].busy)
    /\ pc' = [pc EXCEPT ![0] = "seed_hsync"]
    /\ UNCHANGED <<loc, progLen, memcpy_dma_chan, address_pointer, mem,
                   chains, ninits, claimed, log, trig, emitted>>
    /\ UNCHANGED <<pioVars, callVars>>

\* pio_sm_put_blocking: waits for room in the TX FIFO, then adds the value.
pio_sm_put_blocking(sm, v, next) ==
    /\ txLevel[sm] < FifoDepth
    /\ txLevel' = [txLevel EXCEPT ![sm] = @ + 1]
    /\ seeds' = [seeds EXCEPT ![sm] = Append(@, v)]
    /\ pc' = [pc EXCEPT ![0] = next]
    /\ UNCHANGED <<loc, progLen, instrUsed, smInit, smEnabled,
                   memcpy_dma_chan, address_pointer, mem, chains, ninits>>
    /\ UNCHANGED <<dmaVars, callVars>>

SeedHsync ==
    /\ pc[0] = "seed_hsync"
    /\ pio_sm_put_blocking(hsync_sm, H_ACTIVE, "seed_vsync")

SeedVsync ==
    /\ pc[0] = "seed_vsync"
    /\ pio_sm_put_blocking(vsync_sm, V_SEED, "seed_rgb")

SeedRgb_Skip ==
    /\ pc[0] = "seed_rgb"
    /\ pc' = [pc EXCEPT ![0] = "enable"]
    /\ UNCHANGED <<loc, progLen, memcpy_dma_chan, address_pointer, mem,
                   chains, ninits>>
    /\ UNCHANGED <<pioVars, dmaVars, callVars>>

SeedRgb ==
    /\ pc[0] = "seed_rgb"
    /\ pio_sm_put_blocking(rgb_sm, RGB_ACTIVE, "enable")

EnableMask_NoRgb == {hsync_sm, vsync_sm, pclk_sm}

\* The state machines named in the mask of pio_enable_sm_mask_in_sync.
EnableMask == {hsync_sm, vsync_sm, rgb_sm, pclk_sm}

\* pio_enable_sm_mask_in_sync: the state machines of the mask start in the
\* same cycle; each configured one executes its first instruction, the
\* pull of its seed.
EnableSms ==
    /\ pc[0] = "enable"
    /\ smEnabled' = smEnabled \cup EnableMask
    /\ txLevel' = [s \in StateMachines |->
                      IF s \in EnableMask \cap smInit /\ s \notin smEnabled
                              /\ txLevel[s] > 0
                      THEN txLevel[s] - 1
                      ELSE txLevel[s]]
    /\ pc' = [pc EXCEPT ![0] = "start_0"]
    /\ UNCHANGED <<loc, progLen, instrUsed, smInit, seeds, memcpy_dma_chan,
                   address_pointer, mem, chains, ninits>>
    /\ UNCHANGED <<dmaVars, callVars>>

\* dma_start_channel_mask(1u << rgb_chan_0), and the return of
\* VGA_initDisplay.
StartA ==
    /\ pc[0] = "start_0"
    /\ ch' = Trigger(ch, loc.c0)
    /\ log' = IF Triggers(ch, loc.c0) THEN [log EXCEPT ![loc.c0] = <<>>]
              ELSE log
    /\ trig' = IF Triggers(ch, loc.c0)
               THEN [trig EXCEPT ![loc.c0] = <<"cpu", 0>>]
               ELSE trig
    /\ chains' = Append(chains, <<loc.c0, loc.c1>>)
    /\ pc' = [pc EXCEPT ![0] = "idle"]
    /\ UNCHANGED <<loc, progLen, memcpy_dma_chan, address_pointer, mem,
                   ninits, claimed, raced, emitted>>
    /\ UNCHANGED <<pioVars, callVars>>

(* --------------------------- bulk operations -------------------------- *)
NoCall ==
    [op |-> "none", color |-> 0, dest |-> <<"null", 0>>,
     src |-> <<"null", 0>>, num |-> 0, val |-> 0, chan |-> NoChan,
     pre |-> <<>>, post |-> <<>>]

\* A core may make a bulk call once VGA_initDisplay has returned.
MayCall(t) ==
    /\ pc[t] = "idle"
    /\ Len(chains) >= 1
    /\ ncalls < MaxCalls

ConfigMemset_NoIncrement ==
    [dma_channel_get_default_config(memcpy_dma_chan) EXCEPT
        !.size = 1, !.incr_read = FALSE, !.incr_write = FALSE]

ConfigMemcpy_NoIncrement ==
    [dma_channel_get_default_config(memcpy_dma_chan) EXCEPT
        !.size = 1, !.incr_read = FALSE, !.incr_write = TRUE]

\* The configuration dma_memset gives the channel: 8 bit units, the read
\* address fixed on val, the write address incrementing.
ConfigMemset ==
    [dma_channel_get_default_config(memcpy_dma_chan) EXCEPT
        !.size = 1, !.incr_read = FALSE, !.incr_write = TRUE]

\* The configuration dma_memcpy gives the channel: 8 bit units, both
\* addresses incrementing.
ConfigMemcpy ==
    [dma_channel_get_default_config(memcpy_dma_chan) EXCEPT
        !.size = 1, !.incr_read = TRUE, !.incr_write = TRUE]

\* Configure memcpy_dma_chan and start it immediately (lines 166-178 and
\* 188-200): the first half of dma_memset and of dma_memcpy.
StartBulk(t, cfg, dest, src, num, rec) ==
    LET m == memcpy_dma_chan
        started == ~ch[m].busy /\ num > 0
    IN  /\ ch' = dma_channel_configure(ch, m, cfg, dest, src, num, TRUE)
        /\ raced' = (raced \/ ch[m].busy)
        /\ log' = IF started THEN [log EXCEPT ![m] = <<>>] ELSE log
        /\ trig' = IF started THEN [trig EXCEPT ![m] = <<"cpu", t>>]
                   ELSE trig
        /\ call' = [call EXCEPT ![t] = rec]
        /\ ncalls' = ncalls + 1
        /\ pc' = [pc EXCEPT ![t] = "wait"]
        /\ UNCHANGED <<loc, progLen, memcpy_dma_chan, address_pointer,
                       chains, ninits, claimed, hist, emitted>>
        /\ UNCHANGED pioVars

dma_memset(t, dest, val, num, op, color) ==
    /\ mem' = [mem EXCEPT ![ValAddr(t)] = val]
    /\ StartBulk(t, ConfigMemset, dest, ValAddr(t), num,
                 [op |-> op, color |-> color, dest |-> dest,
                  src |-> ValAddr(t), num |-> num, val |-> val,
                  chan |-> memcpy_dma_chan, pre |-> mem, post |-> <<>>])

dma_memcpy(t, dest, src, num, op) ==
    /\ mem' = mem
    /\ StartBulk(t, ConfigMemcpy, dest, src, num,
                 [op |-> op, color |-> 0, dest |-> dest, src |-> src,
                  num |-> num, val |-> 0, chan |-> memcpy_dma_chan,
                  pre |-> mem, post |-> <<>>])

WaitForFinish_NoWait(t) ==
    /\ pc[t] = "wait"
    /\ pc' = [pc EXCEPT ![t] = "idle"]
    /\ hist' = [hist EXCEPT ![t] = Append(@, [call[t] EXCEPT !.post = mem])]
    /\ call' = [call EXCEPT ![t] = NoCall]
    /\ UNCHANGED <<loc, progLen, memcpy_dma_chan, address_pointer, mem,
                   chains, ninits, ncalls>>
    /\ UNCHANGED <<pioVars, dmaVars>>

\* dma_channel_wait_for_finish_blocking(memcpy_dma_chan), and the return
\* of the call.
WaitForFinish(t) ==
    /\ pc[t] = "wait"
    /\ ~ch[memcpy_dma_chan].busy
    /\ pc' = [pc EXCEPT ![t] = "idle"]
    /\ hist' = [hist EXCEPT ![t] = Append(@, [call[t] EXCEPT !.post = mem])]
    /\ call' = [call EXCEPT ![t] = NoCall]
    /\ UNCHANGED <<loc, progLen, memcpy_dma_chan, address_pointer, mem,
                   chains, ninits, ncalls>>
    /\ UNCHANGED <<pioVars, dmaVars>>

(* ------------------------------- inputs ------------------------------- *)
Colors == {RED, WHITE}

\* Arguments of VGA_fillScreen (uint16_t color): the eight 3 bit colors
\* and values wider than 3 bits.
ColorArgs == (0 .. 7) \cup {8, 40, 4096}
FillValues == {170}

\* A range of num bytes at address a lies inside a's buffer.
InRange(a, num) == a[2] + num <= TXCOUNT

VGA_fillScreen(t, colors) ==
    /\ MayCall(t)
    /\ \E color \in colors :
           dma_memset(t, FbAddr(0), PackColor(color), TXCOUNT,
                      "fillScreen", color)

VGA_drawFrame_Short(t) ==
    /\ MayCall(t)
    /\ dma_memcpy(t, FbAddr(0), BufAddr(0), TXCOUNT - 1, "drawFrame")

VGA_drawFrame(t) ==
    /\ MayCall(t)
    /\ dma_memcpy(t, FbAddr(0), BufAddr(0), TXCOUNT, "drawFrame")

CallMemset(t, dests, nums) ==
    /\ MayCall(t)
    /\ \E dest \in dests, num \in nums, val \in FillValues :
           /\ InRange(dest, num)
           /\ dma_memset(t, dest, val, num, "memset", 0)

CallMemcpy(t, dests, srcs, nums) ==
    /\ MayCall(t)
    /\ \E dest \in dests, src \in srcs, num \in nums :
           /\ InRange(dest, num)
           /\ InRange(src, num)
           /\ dma_memcpy(t, dest, src, num, "memcpy")

\* Nothing in the bulk operations checks that VGA_initDisplay has run: a
\* core may call VGA_fillScreen or VGA_drawFrame whenever it is not in
\* another call, also before its first call of VGA_initDisplay.
CallAnyTime(t) ==
    /\ pc[t] \in {"boot", "idle"}
    /\ ncalls < MaxCalls
    /\ \/ \E color \in Colors :
              dma_memset(t, FbAddr(0), PackColor(color), TXCOUNT,
                         "fillScreen", color)
       \/ dma_memcpy(t, FbAddr(0), BufAddr(0), TXCOUNT, "drawFrame")

\* The pixel bytes application code stores in the framebuffer.
PixelValues == {PackColor(color) : color \in Colors}

\* Application code changes the contents of vga_data_array in place: one
\* byte, at any index.
WriteFrame(t) ==
    /\ MayCall(t)
    /\ \E i \in 0 .. TXCOUNT - 1, v \in PixelValues :
           mem' = [mem EXCEPT ![FbAddr(i)] = v]
    /\ ncalls' = ncalls + 1
    /\ UNCHANGED <<pc, loc, progLen, memcpy_dma_chan, address_pointer,
                   chains, ninits, call, hist>>
    /\ UNCHANGED <<pioVars, dmaVars>>

(* --------------------------- specifications --------------------------- *)
\* The length of each of the three PIO programs and the number of channels
\* other code has claimed before VGA_initDisplay is called: everything
\* fits, or one of the loads or one of the claims fails.
InitConfigs ==
    {<<5, 0>>, <<11, 0>>, <<17, 0>>, <<33, 0>>}
        \cup {<<5, NumChannels - k>> : k \in 0 .. 2}

\* Programs that fit twice, and programs that fit once only.
AgainConfigs == {<<5, 0>>, <<10, 0>>}

WhiteFrame == [i \in 0 .. TXCOUNT - 1 |-> WHITE]
CountFrame == [i \in 0 .. TXCOUNT - 1 |-> i + 1]

InitWith(configs, bufs) ==
    /\ pc = [t \in Cores |-> IF t = 0 THEN "boot" ELSE "idle"]
    /\ loc = [c0 |-> NoChan, c1 |-> NoChan]
    /\ \E cfg \in configs :
           /\ progLen = [p \in Programs |-> cfg[1]]
           /\ claimed = {c \in Channels : c >= NumChannels - cfg[2]}
    /\ instrUsed = 0
    /\ smInit = {}
    /\ smEnabled = {}
    /\ txLevel = [s \in StateMachines |-> 0]
    /\ seeds = [s \in StateMachines |-> <<>>]
    /\ memcpy_dma_chan = 0
    /\ address_pointer = FbAddr(0)
    /\ ch = [c \in Channels |-> ResetChannel(c)]
    /\ \E b \in bufs :
           mem = [a \in MemAddrs |->
                     IF a[1] = "buf" THEN b[a[2]] ELSE 0]
    /\ call = [t \in Cores |-> NoCall]
    /\ hist = [t \in Cores |-> <<>>]
    /\ ncalls = 0
    /\ ninits = 0
    /\ chains = <<>>
    /\ log = [c \in Channels |-> <<>>]
    /\ trig = [c \in Channels |-> <<"none", 0>>]
    /\ raced = FALSE
    /\ emitted = <<<<"null", 0>>, 0>>

VGA_initDisplay(from) ==
    \/ AddHsync(from)
    \/ AddVsync
    \/ AddRgb
    \/ ProgramInit
    \/ Claim0
    \/ Claim1
    \/ ClaimMemcpy
    \/ ConfigureA
    \/ ConfigureB
    \/ SeedHsync
    \/ SeedVsync
    \/ SeedRgb
    \/ EnableSms
    \/ StartA

Hardware ==
    \/ \E c \in Channels : DmaTransfer(c)
    \/ SmPull

\* Both cores call the library; core 0 calls VGA_initDisplay first, once.
Init == InitWith(InitConfigs, {CountFrame})

Bulk(t) ==
    \/ VGA_fillScreen(t, Colors)
    \/ VGA_drawFrame(t)
    \/ CallMemset(t, {BufAddr(0)}, {TXCOUNT})
    \/ CallMemcpy(t, {BufAddr(0)}, {FbAddr(0)}, {TXCOUNT})
    \/ WaitForFinish(t)

Next ==
    \/ VGA_initDisplay({"boot"})
    \/ Hardware
    \/ \E t \in Cores : Bulk(t)

Spec == Init /\ [][Next]_vars

\* One core calls the library and may call VGA_initDisplay again.
NextAgain ==
    \/ VGA_initDisplay({"boot", "idle"})
    \/ Hardware
    \/ Bulk(0)

InitAgain == InitWith(AgainConfigs, {CountFrame})

SpecAgain == InitAgain /\ [][NextAgain]_vars

\* One core makes the public calls in any order: bulk calls before, between
\* and after calls of VGA_initDisplay.
NextAnyOrder ==
    \/ VGA_initDisplay({"boot", "idle"})
    \/ Hardware
    \/ CallAnyTime(0)
    \/ WaitForFinish(0)

SpecAnyOrder == InitAgain /\ [][NextAnyOrder]_vars

\* One core calls the library: VGA_initDisplay once, then bulk calls one
\* after the other.
InitSeq == InitWith({<<5, 0>>}, {WhiteFrame, CountFrame})

BulkSeq ==
    \/ VGA_fillScreen(0, Colors)
    \/ VGA_drawFrame(0)
    \/ CallMemset(0, {BufAddr(0), BufAddr(1)}, {0, 1, TXCOUNT})
    \/ CallMemcpy(0, {FbAddr(0), FbAddr(1), BufAddr(1)}, {BufAddr(0)},
                  {0, 1, TXCOUNT - 1, TXCOUNT})
    \/ WaitForFinish(0)

NextSeq ==
    \/ VGA_initDisplay({"boot"})
    \/ Hardware
    \/ BulkSeq

SpecSeq == InitSeq /\ [][NextSeq]_vars

\* One core calls VGA_initDisplay, then VGA_fillScreen with any color
\* argument.
InitFill == InitWith({<<5, 0>>}, {CountFrame})

NextFill ==
    \/ VGA_initDisplay({"boot"})
    \/ Hardware
    \/ VGA_fillScreen(0, ColorArgs)
    \/ WaitForFinish(0)

SpecFill == InitFill /\ [][NextFill]_vars

\* The DMA channels and the rgb state machine keep running: a channel
\* that can transfer eventually does.
Fairness ==
    /\ \A c \in Channels : WF_vars(DmaTransfer(c))
    /\ WF_vars(SmPull)

SpecLive == Spec /\ Fairness

\* The calling core keeps running too: it leaves the wait loop of
\* dma_channel_wait_for_finish_blocking once the channel is idle.
CallerFairness == WF_vars(WaitForFinish(0))

SpecSeqLive == SpecSeq /\ Fairness /\ CallerFairness

\* One core calls VGA_initDisplay, then writes framebuffer bytes itself
\* or through VGA_fillScreen and VGA_drawFrame, while the scanout runs.
InitWrite == InitWith({<<5, 0>>}, {WhiteFrame})

NextWrite ==
    \/ VGA_initDisplay({"boot"})
    \/ Hardware
    \/ WriteFrame(0)
    \/ VGA_fillScreen(0, Colors)
    \/ VGA_drawFrame(0)
    \/ WaitForFinish(0)

SpecWrite == InitWrite /\ [][NextWrite]_vars

SpecWriteLive == SpecWrite /\ Fairness /\ CallerFairness

(* ------------------------------- claims ------------------------------- *)
Armed == Len(chains) >= 1
ChanA == chains[1][1]
ChanB == chains[1][2]
DataAddrs ==
    {FbAddr(i) : i \in 0 .. TXCOUNT - 1}
        \cup {BufAddr(i) : i \in 0 .. TXCOUNT - 1}
FrameAddrs(n) == [i \in 1 .. n |-> FbAddr(i - 1)]
Returned == UNION {{hist[t][k] : k \in 1 .. Len(hist[t])} : t \in Cores}
InDest(h, a) ==
    /\ a[1] = h.dest[1]
    /\ a[2] >= h.dest[2]
    /\ a[2] < h.dest[2] + h.num

\* C1: once VGA_initDisplay has started channel A, exactly one of the two
\* scanout channels is active in every state, and activity alternates: B
\* is active only after A completed a pass and chained to it, A is active
\* after the start by VGA_initDisplay or after B chained back to it.
ChainAlternation ==
    \A k \in 1 .. Len(chains) :
        LET a == chains[k][1]
            b == chains[k][2]
        IN  /\ ch[a].busy /= ch[b].busy
            /\ ch[b].busy =>
                   trig[b] = <<"chain", a>> /\ Len(log[a]) = TXCOUNT
            /\ ch[a].busy =>
                   \/ trig[a] = <<"cpu", 0>> /\ trig[b] = <<"none", 0>>
                   \/ trig[a] = <<"chain", b>> /\ log[b] = <<ApAddr>>

\* C1 witness: A is active again after A, then B, completed.
ChainAlternationWitness ==
    /\ Armed
    /\ ch[ChanA].busy
    /\ trig[ChanA] = <<"chain", ChanB>>
    /\ Len(log[ChanA]) > 0

\* The scanout of a pass: A has emitted the framebuffer bytes 0 .. n-1 in
\* index order, its read address is at index n and TXCOUNT - n units
\* remain; B is triggered by A's completion only and copies
\* address_pointer.
ScanoutOrder ==
    Armed =>
        /\ \E n \in 0 .. TXCOUNT : log[ChanA] = FrameAddrs(n)
        /\ ch[ChanA].busy =>
               /\ ch[ChanA].read = FbAddr(Len(log[ChanA]))
               /\ ch[ChanA].count = TXCOUNT - Len(log[ChanA])
        /\ trig[ChanB] \in {<<"none", 0>>, <<"chain", ChanA>>}
        /\ ch[ChanB].read = ApAddr
        /\ ch[ChanB].write = RdAddr(ChanA)

PassComplete == Armed /\ log[ChanA] = FrameAddrs(TXCOUNT)

PassStart ==
    /\ Armed
    /\ ch[ChanA].busy
    /\ log[ChanA] = <<>>
    /\ ch[ChanA].read = address_pointer
    /\ ch[ChanA].count = TXCOUNT

\* C2: once armed, channel A emits the framebuffer bytes 0 .. TXCOUNT-1 in
\* index order, every pass is completed, every completed pass is followed
\* by a new pass that starts at the address in address_pointer with
\* TXCOUNT units, and B is triggered by A's completion only.
PerpetualScanout ==
    /\ []ScanoutOrder
    /\ [](Armed => <>PassComplete)
    /\ [](PassComplete => <>PassStart)

\* C2 witness: a pass that B started has been completed.
PerpetualScanoutWitness ==
    PassComplete /\ trig[ChanA] = <<"chain", ChanB>>

\* C3: when dma_memset (directly or through VGA_fillScreen) returns, every
\* byte of dest[0..num) is val and every other byte is as before the call.
FillCorrect ==
    \A h \in Returned :
        h.op \in {"memset", "fillScreen"} =>
            \A a \in DataAddrs :
                h.post[a] = IF InDest(h, a) THEN h.val ELSE h.pre[a]

\* C3 witness: a fill of no bytes and a fill of one byte in the middle of
\* a buffer have returned.
FillCorrectWitness ==
    /\ Len(hist[0]) = 2
    /\ hist[0][1].op = "memset" /\ hist[0][1].num = 0
    /\ hist[0][2].op = "memset" /\ hist[0][2].num = 1
    /\ hist[0][2].dest = BufAddr(1)

SrcConstant(h) ==
    \A i \in 0 .. h.num - 1 :
        h.post[<<h.src[1], h.src[2] + i>>] = h.pre[<<h.src[1], h.src[2] + i>>]

\* C4: when dma_memcpy (directly or through VGA_drawFrame) returns and the
\* source range was not modified, dest[i] is the value src[i] had before
\* the call, for every i below num.
CopyCorrect ==
    \A h \in Returned :
        (h.op \in {"memcpy", "drawFrame"} /\ SrcConstant(h)) =>
            \A i \in 0 .. h.num - 1 :
                h.post[<<h.dest[1], h.dest[2] + i>>]
                    = h.pre[<<h.src[1], h.src[2] + i>>]

\* C4 witness: a copy of distinct bytes to an offset of the framebuffer
\* has returned.
CopyCorrectWitness ==
    \E h \in Returned :
        /\ h.op = "memcpy"
        /\ h.dest = FbAddr(1)
        /\ h.num = TXCOUNT - 1
        /\ h.pre[BufAddr(0)] /= h.pre[BufAddr(1)]
        /\ SrcConstant(h)

InCall(t) == pc[t] = "wait"

\* C5 as claimed: the bulk channel is never configured or restarted while
\* a transfer started on it is still in progress.
NeverReconfiguredWhileBusy == ~raced

\* C5 as amended: the bulk channel is busy only while a call that has not
\* returned is waiting for it, so a call made while no other call is in
\* progress finds the channel idle and never reconfigures a transfer in
\* progress; calls of two cores that overlap are not serialized.
BusyOnlyDuringCall ==
    Armed => (ch[memcpy_dma_chan].busy => \E t \in Cores : InCall(t))

\* C5 witness: a second call was started after the first one, no
\* configuration hit a busy channel, and its transfer is in progress.
BusyOnlyDuringCallWitness ==
    /\ ncalls = 2
    /\ ~raced
    /\ ch[memcpy_dma_chan].busy
    /\ \E t \in Cores : Len(hist[t]) = 1

FillRedThenDrawWhite ==
    /\ Len(hist[0]) = 2
    /\ hist[0][1].op = "fillScreen" /\ hist[0][1].color = RED
    /\ hist[0][2].op = "drawFrame"
    /\ \A i \in 0 .. TXCOUNT - 1 : hist[0][2].pre[BufAddr(i)] = WHITE

\* C6 as claimed: after VGA_fillScreen(RED) and VGA_drawFrame of a source
\* of TXCOUNT bytes WHITE, every framebuffer byte is the packed white
\* pattern, WHITE | (WHITE << 3).
FrameIsPackedWhite ==
    FillRedThenDrawWhite =>
        \A i \in 0 .. TXCOUNT - 1 :
            hist[0][2].post[FbAddr(i)] = PackColor(WHITE)

\* C6 as amended: after VGA_fillScreen(RED) and VGA_drawFrame of a source
\* of TXCOUNT bytes WHITE, the framebuffer is fully replaced: every
\* framebuffer byte equals the source byte, WHITE, unpacked.
FrameIsSource ==
    FillRedThenDrawWhite =>
        \A i \in 0 .. TXCOUNT - 1 :
            /\ hist[0][2].pre[FbAddr(i)] = PackColor(RED)
            /\ hist[0][2].post[FbAddr(i)] = WHITE
            /\ hist[0][2].post[BufAddr(i)] = WHITE

\* C6 witness: the scenario has run to the return of VGA_drawFrame.
FrameIsSourceWitness == FillRedThenDrawWhite /\ pc[0] = "idle"

\* C7: two VGA_fillScreen calls in a row with the same color leave the
\* memory after the second call as it was after the first.
FillScreenIdempotent ==
    \A t \in Cores : \A k \in 1 .. Len(hist[t]) - 1 :
        (/\ hist[t][k].op = "fillScreen"
         /\ hist[t][k + 1].op = "fillScreen"
         /\ hist[t][k].color = hist[t][k + 1].color) =>
            \A a \in DataAddrs : hist[t][k + 1].post[a] = hist[t][k].post[a]

\* C7 witness: VGA_fillScreen(WHITE) has returned twice in a row.
FillScreenIdempotentWitness ==
    /\ Len(hist[0]) = 2
    /\ hist[0][1].op = "fillScreen" /\ hist[0][1].color = WHITE
    /\ hist[0][2].op = "fillScreen" /\ hist[0][2].color = WHITE

\* C8 as claimed: a second call of VGA_initDisplay is a no-op or ends in a
\* fatal error: no second pair of scanout channels is ever armed.
ReArmAbsence == Len(chains) <= 1

Failed == pc[0] = "panic"
TotalLen == progLen["thd_hsync"] + progLen["thd_vsync"] + progLen["thd_rgb"]
Running ==
    \/ smEnabled /= {}
    \/ \E c \in Channels : ch[c].busy

\* C9: a failed load or claim halts VGA_initDisplay: after it no state
\* machine runs and no channel is started; whenever a state machine runs
\* or a channel is active, all three programs were loaded and the three
\* channels were claimed.
InitFailureIsFatal ==
    /\ Failed => ~Running /\ chains = <<>> /\ ncalls = 0
    /\ Running =>
           /\ instrUsed = TotalLen
           /\ {loc.c0, loc.c1, memcpy_dma_chan} \subseteq claimed
           /\ Cardinality({loc.c0, loc.c1, memcpy_dma_chan}) = 3

\* C9 witness: the claim of the second channel failed after the programs
\* were loaded and the first channel was claimed.
InitFailureIsFatalWitness ==
    /\ Failed
    /\ instrUsed = TotalLen
    /\ loc.c0 /= NoChan
    /\ loc.c1 = NoChan

DescriptorsIntact(a, b) ==
    /\ ch[a].write = TxfAddr(rgb_sm)
    /\ ch[a].read \in {FbAddr(i) : i \in 0 .. TXCOUNT}
    /\ ch[a].reload = TXCOUNT
    /\ ch[a].chain_to = b
    /\ ch[a].en /\ ch[a].incr_read /\ ~ch[a].incr_write /\ ch[a].size = 1
    /\ ch[b].write = RdAddr(a)
    /\ ch[b].read = ApAddr
    /\ ch[b].reload = 1
    /\ ch[b].chain_to = a
    /\ ch[b].en /\ ~ch[b].incr_read /\ ~ch[b].incr_write /\ ch[b].size = 4

\* C10: while a bulk call is in progress the scanout channels keep their
\* descriptors, exactly one of them is active and it can transfer; the
\* bulk channel is none of them and, while busy, can transfer whatever
\* the scanout channels do.
BulkLeavesScanoutAlone ==
    (Armed /\ \E t \in Cores : InCall(t)) =>
        /\ DescriptorsIntact(ChanA, ChanB)
        /\ ch[ChanA].busy /= ch[ChanB].busy
        /\ \E c \in {ChanA, ChanB} : CanTransfer(c)
        /\ memcpy_dma_chan \notin {ChanA, ChanB}
        /\ ch[memcpy_dma_chan].busy => CanTransfer(memcpy_dma_chan)

\* C10 witness: during a bulk call whose transfer is half done, A has
\* completed a pass and B is active.
BulkLeavesScanoutAloneWitness ==
    /\ Armed
    /\ \E t \in Cores : InCall(t)
    /\ ch[memcpy_dma_chan].busy
    /\ Len(log[memcpy_dma_chan]) > 0
    /\ ch[ChanB].busy
    /\ trig[ChanA] = <<"chain", ChanB>>

(* ----------------------- claims: start and pacing --------------------- *)
\* The three timing generators: the state machines that run thd_hsync,
\* thd_vsync and thd_rgb.
Generators == {hsync_sm, vsync_sm, rgb_sm}

\* C11: the three timing generators go from stopped to running in one
\* step of VGA_initDisplay, the synchronized start: in no state are some
\* but not all of them running, and the only step that starts a state
\* machine is that one, which starts all three.
SynchronizedStart ==
    /\ [](smEnabled \cap Generators \in {{}, Generators})
    /\ [][smEnabled' /= smEnabled =>
              /\ pc[0] = "enable"
              /\ smEnabled \cap Generators = {}
              /\ Generators \subseteq smEnabled']_vars

\* C11 witness: the start step has been taken, all three generators run
\* and channel A has not been started yet.
SynchronizedStartWitness ==
    /\ pc[0] = "start_0"
    /\ Generators \subseteq smEnabled

\* Channel A is about to write a unit to a TX FIFO that is full.
FifoOverrun ==
    /\ Armed
    /\ CanTransfer(ChanA)
    /\ txLevel[ch[ChanA].write[2]] = FifoDepth

\* C12 as claimed: the data request that paces channel A is the one of
\* the state machine whose TX FIFO channel A writes to, so channel A
\* never writes a unit to a full TX FIFO.
PacedByDestination ==
    Armed =>
        /\ ch[ChanA].write[1] = "txf"
        /\ ch[ChanA].dreq = <<"pio_tx", ch[ChanA].write[2]>>
        /\ ~FifoOverrun

(* ---------------------- claims: initialization order ------------------ *)
ProgramsLoaded == instrUsed = TotalLen

ChannelsAllocated ==
    /\ ProgramsLoaded
    /\ {loc.c0, loc.c1, memcpy_dma_chan} \subseteq claimed
    /\ Cardinality({loc.c0, loc.c1, memcpy_dma_chan}) = 3

ParametersSeeded ==
    /\ ChannelsAllocated
    /\ seeds[hsync_sm] = <<H_ACTIVE>>
    /\ seeds[vsync_sm] = <<V_SEED>>
    /\ seeds[rgb_sm] = <<RGB_ACTIVE>>

GeneratorsRunning == ParametersSeeded /\ Generators \subseteq smEnabled

ChainArmed ==
    /\ GeneratorsRunning
    /\ Armed
    /\ ch[ChanA].busy \/ ch[ChanB].busy

\* The state of section 4.4 the driver is in: 0 is UNINITIALIZED, 5 is
\* CHAIN_ARMED.
InitPhase ==
    IF ChainArmed THEN 5
    ELSE IF GeneratorsRunning THEN 4
    ELSE IF ParametersSeeded THEN 3
    ELSE IF ChannelsAllocated THEN 2
    ELSE IF ProgramsLoaded THEN 1
    ELSE 0

\* C13: VGA_initDisplay goes through UNINITIALIZED, PROGRAMS_LOADED,
\* CHANNELS_ALLOCATED, PARAMETERS_SEEDED, GENERATORS_RUNNING, CHAIN_ARMED
\* one state at a time and never backwards; when a state machine is
\* started both scanout channels are configured and idle and each
\* generator has received exactly one seed; a channel is started only
\* when the generators run; CHAIN_ARMED is never left.
InitializationOrder ==
    /\ [][InitPhase' \in {InitPhase, InitPhase + 1}]_vars
    /\ [](smEnabled /= {} =>
              ParametersSeeded /\ DescriptorsIntact(loc.c0, loc.c1))
    /\ [](~Armed => \A c \in Channels : ~ch[c].busy)
    /\ []((\E c \in Channels : ch[c].busy) => GeneratorsRunning)
    /\ [](Armed => ChainArmed)

\* C13 witness: CHAIN_ARMED has been reached and B has re-armed A.
InitializationOrderWitness ==
    /\ InitPhase = 5
    /\ trig[ChanA] = <<"chain", ChanB>>

(* ------------------------ claims: origin pointer ---------------------- *)
\* A bulk call whose destination range lies inside the framebuffer.
IntoFrame(h) == h.dest[1] = "fb" /\ h.dest[2] + h.num <= TXCOUNT

\* C14: address_pointer holds the address of framebuffer index 0 in every
\* state, whatever bulk calls into the framebuffer have been made or are
\* in progress, and every pass that channel B started begins with channel
\* A's read address at the framebuffer origin.
OriginPointer ==
    /\ address_pointer = FbAddr(0)
    /\ \A k \in 1 .. Len(chains) :
           LET a == chains[k][1]
               b == chains[k][2]
           IN  (ch[a].busy /\ trig[a] = <<"chain", b>> /\ log[a] = <<>>) =>
                   ch[a].read = FbAddr(0)

\* C14 witness: a fill of the screen and a copy into part of the
\* framebuffer have returned, and channel B has just re-armed channel A.
OriginPointerWitness ==
    /\ Len(hist[0]) = 2
    /\ hist[0][1].op = "fillScreen"
    /\ hist[0][2].op = "memcpy"
    /\ hist[0][2].dest = FbAddr(1) /\ hist[0][2].num > 0
    /\ \A k \in 1 .. 2 : IntoFrame(hist[0][k])
    /\ ch[ChanA].busy /\ trig[ChanA] = <<"chain", ChanB>>
    /\ log[ChanA] = <<>>

(* ------------------- claims: blocking and termination ----------------- *)
\* Core t returns from a bulk call in this step.
Returns(t) == InCall(t) /\ ~InCall(t)'

\* C15: a bulk call returns only when the bulk channel is idle with no
\* unit left, having moved all num units of the call, and, the channel
\* and the caller running on, every call returns, for every num from 0
\* to the length of the buffer.
BulkBlocksAndTerminates ==
    /\ [][\A t \in Cores :
              Returns(t) =>
                  /\ ~ch[call[t].chan].busy
                  /\ ch[call[t].chan].count = 0
                  /\ call[t].num > 0 =>
                         Len(log[call[t].chan]) = call[t].num]_vars
    /\ [](InCall(0) => <>(~InCall(0)))

\* C15 witness: a call with num = 0 and a call for the whole buffer have
\* both returned.
BulkBlocksAndTerminatesWitness ==
    /\ Len(hist[0]) = 2
    /\ hist[0][1].num = 0
    /\ hist[0][2].num = TXCOUNT
    /\ ~InCall(0)

(* ------------------------ claims: color packing ----------------------- *)
\* The positions of the 1 bits of x.
Bits(x) == {k \in 0 .. 19 : (x \div 2 ^ k) % 2 = 1}

RECURSIVE SumPow(_)
SumPow(S) ==
    IF S = {} THEN 0
    ELSE LET k == CHOOSE j \in S : TRUE
         IN  2 ^ k + SumPow(S \ {k})

\* The low 8 bits of c | (c << 3), from the bits of c.
PackedByte(c) ==
    SumPow((Bits(c) \cup {k + 3 : k \in Bits(c)}) \cap (0 .. 7))

\* C16: when VGA_fillScreen(c) returns, every framebuffer byte is
\* c | (c << 3) for a 3 bit color c, which is 9 * c and below 64, and
\* (c | (c << 3)) mod 256 for a wider c.
FillScreenPacks ==
    \A h \in Returned :
        h.op = "fillScreen" =>
            \A i \in 0 .. TXCOUNT - 1 :
                /\ h.post[FbAddr(i)] = PackedByte(h.color)
                /\ h.color <= 7 =>
                       /\ h.post[FbAddr(i)] = 9 * h.color
                       /\ h.post[FbAddr(i)] < 64

\* C16 witness: VGA_fillScreen(WHITE) and VGA_fillScreen(40) have
\* returned, the second leaving 104 in the framebuffer.
FillScreenPacksWitness ==
    /\ Len(hist[0]) = 2
    /\ hist[0][1].op = "fillScreen" /\ hist[0][1].color = WHITE
    /\ hist[0][1].post[FbAddr(0)] = 63
    /\ hist[0][2].op = "fillScreen" /\ hist[0][2].color = 40
    /\ hist[0][2].post[FbAddr(TXCOUNT - 1)] = 104

(* ------------------- claims: framebuffer to display ------------------- *)
\* The values a framebuffer byte takes: the initial 0, the bytes of the
\* frame drawn and the bytes written or filled.
FrameValues == {0, WHITE} \cup PixelValues

\* Channel A moves a unit in this step.
Emits == Armed /\ log'[ChanA] /= log[ChanA] /\ log'[ChanA] /= <<>>

\* C17: every unit channel A emits is the byte stored at its framebuffer
\* index at the time of the read, be it written directly, by
\* VGA_fillScreen or by VGA_drawFrame, and a byte stored at an index is
\* emitted by a later read of that index unless it is overwritten first;
\* the application does nothing for it.
FrameReachesDisplay ==
    /\ [][Emits =>
              LET a == log'[ChanA][Len(log'[ChanA])]
              IN  a[1] = "fb" /\ emitted' = <<a, mem[a]>>]_vars
    /\ \A i \in 0 .. TXCOUNT - 1 : \A v \in FrameValues :
           []((Armed /\ mem[FbAddr(i)] = v) =>
                  <>(emitted = <<FbAddr(i), v>> \/ mem[FbAddr(i)] /= v))

\* C17 witness: a byte written directly to the middle of the framebuffer,
\* with no bulk call made, has been emitted.
FrameReachesDisplayWitness ==
    /\ ncalls >= 1
    /\ hist[0] = <<>> /\ ~InCall(0)
    /\ mem[FbAddr(1)] = PackColor(RED)
    /\ emitted = <<FbAddr(1), PackColor(RED)>>

(* ------------------------ claims: scanout bounds ---------------------- *)
FrameBytes == {FbAddr(i) : i \in 0 .. TXCOUNT - 1}

\* C18: once armed, channel A's read address is in the framebuffer or
\* one past its last byte, every unit it has read is a framebuffer byte,
\* and while it is active its remaining count plus the offset of its read
\* address from the origin is TXCOUNT, the count being reloaded to
\* TXCOUNT on every re-trigger.
ScanoutInBounds ==
    Armed =>
        /\ ch[ChanA].read[1] = "fb"
        /\ ch[ChanA].read[2] \in 0 .. TXCOUNT
        /\ \A j \in 1 .. Len(log[ChanA]) : log[ChanA][j] \in FrameBytes
        /\ ch[ChanA].reload = TXCOUNT
        /\ ch[ChanA].busy =>
               /\ ch[ChanA].count >= 1
               /\ ch[ChanA].count + ch[ChanA].read[2] = TXCOUNT
        /\ ~ch[ChanA].busy => ch[ChanA].read = FbAddr(TXCOUNT)

\* C18 witness: channel A, re-triggered by channel B, is in the middle of
\* a pass.
ScanoutInBoundsWitness ==
    /\ Armed
    /\ ch[ChanA].busy
    /\ trig[ChanA] = <<"chain", ChanB>>
    /\ ch[ChanA].read = FbAddr(1)
    /\ ch[ChanA].count = TXCOUNT - 1

(* ---------------------- claims: prepared generators ------------------- *)
\* A state machine whose program is loaded, whose init function has run
\* and which has received its seed.
Prepared(s) ==
    /\ s \in Generators
    /\ ProgramsLoaded
    /\ s \in smInit
    /\ seeds[s] /= <<>>

\* C19 as claimed: every state machine that is running has had its
\* program loaded, its init function run and its seed put earlier in
\* VGA_initDisplay.
OnlyPreparedStarted == \A s \in smEnabled : Prepared(s)

(* --------------------- claims: bulk channel ownership ----------------- *)
ScanoutChannels ==
    UNION {{chains[k][1], chains[k][2]} : k \in 1 .. Len(chains)}

\* The channel of the call is one that VGA_initDisplay claimed for the
\* bulk operations, and none of the scanout channels.
Owned(c) ==
    /\ Armed
    /\ c = memcpy_dma_chan
    /\ c \in claimed
    /\ c \notin ScanoutChannels
    /\ c \notin {loc.c0, loc.c1}

\* C20 as claimed: whenever a bulk transfer is configured or in progress,
\* its channel is one VGA_initDisplay has claimed and none of the scanout
\* channels, whatever the order of the public calls.
BulkChannelOwned == \A t \in Cores : InCall(t) => Owned(call[t].chan)

\* C20 as amended: a bulk call made after VGA_initDisplay has returned
\* uses a channel VGA_initDisplay has claimed, different from the scanout
\* channels; a bulk call made before the first VGA_initDisplay uses
\* channel 0, the initial value of memcpy_dma_chan, which is not claimed.
BulkChannelOwnedAfterInit ==
    \A t \in Cores :
        InCall(t) =>
            IF Armed THEN Owned(call[t].chan)
            ELSE call[t].chan = 0 /\ call[t].chan \notin claimed

\* C20 witness: a call made before VGA_initDisplay used the channel that
\* became channel A, and a call made after it is in progress on another
\* channel.
BulkChannelOwnedAfterInitWitness ==
    /\ Armed
    /\ Len(hist[0]) = 1
    /\ hist[0][1].chan = ChanA
    /\ InCall(0)
    /\ call[0].chan /= ChanA
    /\ ch[call[0].chan].busy

====
